---- MODULE Spec2Model ----
(***************************************************************************)
(* Response classification of async-imap (src/parse.rs): the extractors    *)
(* parse_names, parse_fetches, parse_expunge, parse_capabilities,          *)
(* parse_noop, parse_mailbox and parse_ids driven over a stream of parsed  *)
(* response records, with handle_unilateral routing unsolicited responses  *)
(* into a bounded channel.                                                 *)
(***************************************************************************)
EXTENDS Integers, Sequences, FiniteSets, TLC

\* ------------------------------------------------------------------ bounds
\* longest record stream handed to an extractor
MaxLen == 3
\* capacity of the unsolicited channel (sync::channel(cap))
ChanCap == 1

\* ----------------------------------------------------------- small helpers
None == <<>>
Some(x) == <<x>>

RECURSIVE MapSeq(_, _)
MapSeq(F(_), s) == IF s = <<>> THEN <<>> ELSE <<F(Head(s))>> \o MapSeq(F, Tail(s))

RECURSIVE SeqToSet(_)
SeqToSet(s) == IF s = <<>> THEN {} ELSE {Head(s)} \cup SeqToSet(Tail(s))

SeqsUpTo(S, n) == UNION {[1..k -> S] : k \in 0..n}

\* ------------------------------------------------- parsed response records
\* imap_proto::Response, the shapes parse.rs matches on
Done(status, tag) == [t |-> "Done", status |-> status, tag |-> tag]
Data(status, code) == [t |-> "Data", status |-> status, code |-> code]
MbExists(n) == [t |-> "Exists", n |-> n]
MbRecent(n) == [t |-> "Recent", n |-> n]
MbFlags(fl) == [t |-> "Flags", flags |-> fl]
MbList(fl, d, nm) == [t |-> "List", flags |-> fl, delimiter |-> d, name |-> nm]
MbStatus(mb, st) == [t |-> "Status", mailbox |-> mb, sitems |-> st]
Fetch(num, attrs) == [t |-> "Fetch", num |-> num, attrs |-> attrs]
Expunge(n) == [t |-> "Expunge", n |-> n]
Capabilities(cs) == [t |-> "Capabilities", cs |-> cs]
IDs(idl) == [t |-> "IDs", idl |-> idl]
Continue == [t |-> "Continue"]

\* response codes of a Data record, status items, fetch attributes
CodeNum(c, n) == [c |-> c, n |-> n]
CodeFlags(fl) == [c |-> "PermanentFlags", flags |-> fl]
CodeNone == [c |-> "None"]
StatusItem(a, n) == [a |-> a, n |-> n]
AttrUid(n) == [a |-> "Uid", n |-> n]
AttrSize(n) == [a |-> "Rfc822Size", n |-> n]
AttrFlags(fl) == [a |-> "Flags", flags |-> fl]
AttrBody == [a |-> "Body"]

\* ------------------------------------------------------ record universes
DoneOk == Done("Ok", "a1")
DoneNo == Done("No", "a2")
StatusRec == MbStatus("INBOX", <<StatusItem("Messages", 10), StatusItem("Unseen", 0)>>)
FetchUid == Fetch(37, <<AttrUid(74)>>)
FetchAll == Fetch(24, <<AttrFlags(<<"\\Seen">>), AttrUid(48), AttrSize(99), AttrBody>>)
ListInbox == MbList(<<"\\HasNoChildren">>, Some("."), "INBOX")
ListNoSel == MbList(<<"\\Noselect", "\\Marked">>, None, "Top")

Common == {DoneOk, DoneNo, StatusRec, MbRecent(1), MbExists(4), Expunge(3), Continue}

Cmds == {"capabilities", "ids", "names", "fetches", "expunge", "noop", "mailbox"}

RecordsFor(c) ==
    Common \cup
    CASE c = "capabilities" ->
           {Capabilities(<<"IMAP4REV1", "STARTTLS">>),
            Capabilities(<<"IMAP4rev1", "AUTH=PLAIN">>),
            Capabilities(<<"starttls">>)}
      [] c = "ids" -> {IDs(<<1, 2>>), IDs(<<2, 3>>), IDs(<<>>)}
      [] c = "names" -> {ListInbox, ListNoSel, FetchUid}
      [] c = "fetches" -> {FetchUid, FetchAll, Fetch(25, <<>>), ListInbox}
      [] c = "expunge" -> {Expunge(5), FetchUid, ListInbox}
      [] c = "noop" -> {FetchUid}
      [] c = "mailbox" ->
           {Data("Ok", CodeNum("UidValidity", 7)), Data("Ok", CodeNum("UidNext", 8)),
            Data("Ok", CodeNum("Unseen", 2)),
            Data("Ok", CodeFlags(<<"\\Deleted", "\\*">>)),
            Data("Ok", CodeNum("UidNext", 9)),
            Data("Ok", CodeNone), Data("No", CodeNum("Unseen", 5)),
            MbExists(6), MbFlags(<<"\\Seen", "custom">>), ListInbox, FetchUid}

\* ------------------------------------------------------------------- state
VARIABLES
    cmd,          \* which extractor the caller drives
    stream,       \* the record stream handed to it
    pos,          \* number of records taken from the stream
    pc,           \* "next" | "send" | "done" | "panic"
    pending,      \* the event of a suspended channel send (at most one)
    unsolicited,  \* buffer of the bounded channel
    received,     \* events the consumer has taken from the channel
    items,        \* output of a per-item extractor (Ok / Err items)
    caps,         \* accumulator of parse_capabilities
    ids,          \* accumulator of parse_ids
    mailbox,      \* accumulator of parse_mailbox
    err           \* Err(..) returned by an aggregate extractor, or None

vars == <<cmd, stream, pos, pc, pending, unsolicited, received, items, caps, ids, mailbox, err>>

\* -------------------------------------------------------------- conversions
\* Capability::from: the normalized token; tokens that differ only in letter
\* case normalize to the same token
CapabilityFrom(c) ==
    CASE c = "IMAP4rev1" -> "IMAP4REV1"
      [] c = "imap4rev1" -> "IMAP4REV1"
      [] c = "starttls" -> "STARTTLS"
      [] c = "StartTLS" -> "STARTTLS"
      [] c = "auth=plain" -> "AUTH=PLAIN"
      [] OTHER -> c

\* Capabilities::has_str: lookup of a token in whatever case
has_str(cs, s) == CapabilityFrom(s) \in cs

\* Flag::from(String): the system flags are a closed set, the rest is Custom
FlagFrom(s) ==
    CASE s = "\\Seen" -> [flag |-> "Seen"]
      [] s = "\\Answered" -> [flag |-> "Answered"]
      [] s = "\\Flagged" -> [flag |-> "Flagged"]
      [] s = "\\Deleted" -> [flag |-> "Deleted"]
      [] s = "\\Draft" -> [flag |-> "Draft"]
      [] s = "\\Recent" -> [flag |-> "Recent"]
      [] s = "\\*" -> [flag |-> "MayCreate"]
      [] OTHER -> [flag |-> "Custom", s |-> s]

\* NameAttribute::from(String): closed set plus extension strings
NameAttributeFrom(s) ==
    CASE s = "\\Noinferiors" -> [attr |-> "NoInferiors"]
      [] s = "\\Noselect" -> [attr |-> "NoSelect"]
      [] s = "\\Marked" -> [attr |-> "Marked"]
      [] s = "\\Unmarked" -> [attr |-> "Unmarked"]
      [] OTHER -> [attr |-> "Custom", s |-> s]

\* Error::from(Response): the "unexpected response" error carrying the record
Unexpected(resp) == [error |-> "UnexpectedResponse", resp |-> resp]

\* Mailbox::default()
MailboxDefault ==
    [exists |-> 0, recent |-> 0, flags |-> <<>>, permanent_flags |-> <<>>,
     uid_validity |-> None, uid_next |-> None, unseen |-> None]

\* UnsolicitedResponse values
EvStatus(mb, attrs) == [e |-> "Status", mailbox |-> mb, attributes |-> attrs]
EvNum(e, n) == [e |-> e, n |-> n]

\* ----------------------------------------------------------- pure functions
\* take_while that only stops at a Done with status Ok
take_while_ok_only(res) == ~(res.t = "Done" /\ res.status = "Ok")

\* the take_while predicate of every extractor: stop at Response::Done
take_while(res) == res.t # "Done"

\* handle_unilateral without its Exists arm
handle_unilateral_no_exists(res) ==
    CASE res.t = "Status" -> Some(EvStatus(res.mailbox, <<>>))
      [] res.t = "Recent" -> Some(EvNum("Recent", res.n))
      [] res.t = "Expunge" -> Some(EvNum("Expunge", res.n))
      [] OTHER -> None

\* handle_unilateral: Some(event) when the record is a unilateral response
\* (the event is then sent on the channel), None when the record is handed
\* back to the caller
handle_unilateral(res) ==
    CASE res.t = "Status" -> Some(EvStatus(res.mailbox, <<>>))
      [] res.t = "Recent" -> Some(EvNum("Recent", res.n))
      [] res.t = "Exists" -> Some(EvNum("Exists", res.n))
      [] res.t = "Expunge" -> Some(EvNum("Expunge", res.n))
      [] OTHER -> None

\* name_of that forgets the delimiter
name_of_no_delimiter(res) ==
    [attributes |-> MapSeq(NameAttributeFrom, res.flags),
     delimiter |-> None,
     name |-> res.name]

\* the Name built from a List record
name_of(res) ==
    [attributes |-> MapSeq(NameAttributeFrom, res.flags),
     delimiter |-> res.delimiter,
     name |-> res.name]

\* the eager loop of parse_fetches over a list of attributes
RECURSIVE fetch_attrs(_, _)
fetch_attrs(fetch, attrs) ==
    IF attrs = <<>> THEN fetch
    ELSE LET attr == Head(attrs)
             f == CASE attr.a = "Flags" ->
                         [fetch EXCEPT !.flags = @ \o MapSeq(FlagFrom, attr.flags)]
                    [] attr.a = "Uid" -> [fetch EXCEPT !.uid = Some(attr.n)]
                    [] attr.a = "Rfc822Size" -> [fetch EXCEPT !.size = Some(attr.n)]
                    [] OTHER -> fetch
         IN fetch_attrs(f, Tail(attrs))

\* the Fetch built from a Fetch record: the loop runs over fetch.fetch, which
\* is Vec::new() and not the record's attributes
fetch_of(res) ==
    LET fetch == [message |-> res.num, flags |-> <<>>, uid |-> None,
                  size |-> None, fetch |-> <<>>]
    IN fetch_attrs(fetch, fetch.fetch)

\* caps.insert(c) without the normalizing conversion
caps_insert_raw(cs, list) == cs \cup SeqToSet(list)

\* caps.insert(Capability::from(c)) for every c of a Capabilities record
caps_insert(cs, list) == cs \cup {CapabilityFrom(c) : c \in SeqToSet(list)}

\* an assignment where the insert should be
ids_insert_replace(is, list) == SeqToSet(list)

\* ids.insert(*c) for every c of an IDs record
ids_insert(is, list) == is \cup SeqToSet(list)

\* the UidNext arm starts from a fresh Mailbox
mailbox_code_reset(mb, code) ==
    CASE code.c = "UidValidity" -> [mb EXCEPT !.uid_validity = Some(code.n)]
      [] code.c = "UidNext" -> [MailboxDefault EXCEPT !.uid_next = Some(code.n)]
      [] code.c = "Unseen" -> [mb EXCEPT !.unseen = Some(code.n)]
      [] code.c = "PermanentFlags" ->
           [mb EXCEPT !.permanent_flags = @ \o MapSeq(FlagFrom, code.flags)]
      [] OTHER -> mb

\* the Data arm of parse_mailbox, status Ok
mailbox_code(mb, code) ==
    CASE code.c = "UidValidity" -> [mb EXCEPT !.uid_validity = Some(code.n)]
      [] code.c = "UidNext" -> [mb EXCEPT !.uid_next = Some(code.n)]
      [] code.c = "Unseen" -> [mb EXCEPT !.unseen = Some(code.n)]
      [] code.c = "PermanentFlags" ->
           [mb EXCEPT !.permanent_flags = @ \o MapSeq(FlagFrom, code.flags)]
      [] OTHER -> mb

\* the Exists and Recent arms assign each other's field
mailbox_datum_swapped(mb, m) ==
    CASE m.t = "Exists" -> [mb EXCEPT !.recent = m.n]
      [] m.t = "Recent" -> [mb EXCEPT !.exists = m.n]
      [] m.t = "Flags" -> [mb EXCEPT !.flags = @ \o MapSeq(FlagFrom, m.flags)]
      [] OTHER -> mb

\* the Status arm merges the pushed message count into the accumulator
mailbox_datum_merge_status(mb, m) ==
    CASE m.t = "Exists" -> [mb EXCEPT !.exists = m.n]
      [] m.t = "Recent" -> [mb EXCEPT !.recent = m.n]
      [] m.t = "Flags" -> [mb EXCEPT !.flags = @ \o MapSeq(FlagFrom, m.flags)]
      [] m.t = "Status" -> [mb EXCEPT !.exists = m.sitems[1].n]
      [] OTHER -> mb

\* the MailboxData arms of parse_mailbox: what they do to the accumulator
mailbox_datum(mb, m) ==
    CASE m.t = "Exists" -> [mb EXCEPT !.exists = m.n]
      [] m.t = "Recent" -> [mb EXCEPT !.recent = m.n]
      [] m.t = "Flags" -> [mb EXCEPT !.flags = @ \o MapSeq(FlagFrom, m.flags)]
      [] OTHER -> mb

\* parse_mailbox classifying through handle_unilateral like the others
mailbox_event_unilateral(resp) == handle_unilateral(resp)

\* the records parse_mailbox forwards on the channel, with their event
mailbox_event(resp) ==
    CASE resp.t = "Status" -> Some(EvStatus(resp.mailbox, <<>>))
      [] resp.t = "Expunge" -> Some(EvNum("Expunge", resp.n))
      [] OTHER -> None

OkItem(v) == [ok |-> TRUE, val |-> v]
ErrItem(e) == [ok |-> FALSE, error |-> e]

\* --------------------------------------------------------------------- Init
Init ==
    /\ cmd \in Cmds
    /\ stream \in SeqsUpTo(RecordsFor(cmd), MaxLen)
    /\ pos = 0
    /\ pc = "next"
    /\ pending = None
    /\ unsolicited = <<>>
    /\ received = <<>>
    /\ items = <<>>
    /\ caps = {}
    /\ ids = {}
    /\ mailbox = MailboxDefault
    /\ err = None

\* ------------------------------------------------------------ shared steps
\* a try_send: the event is dropped when the channel is full
Deliver_drop_when_full(ev) ==
    /\ unsolicited' = IF Len(unsolicited) < ChanCap THEN Append(unsolicited, ev)
                      ELSE unsolicited
    /\ pending' = None
    /\ pc' = "next"

\* unsolicited.send(ev).await: completes at once when the channel has room,
\* suspends the extractor otherwise
Deliver(ev) ==
    IF Len(unsolicited) < ChanCap
    THEN /\ unsolicited' = Append(unsolicited, ev)
         /\ pending' = None
         /\ pc' = "next"
    ELSE /\ unsolicited' = unsolicited
         /\ pending' = Some(ev)
         /\ pc' = "send"

\* the loop goes on to the next record
Continue_ == pc' = "next" /\ UNCHANGED <<pending, unsolicited>>

\* a loop that polls the stream again after take_while saw Done
Finish_keep_reading == pc' = "next" /\ UNCHANGED <<pending, unsolicited>>

\* the stream ended or take_while saw Done: the extractor is finished
Finish == pc' = "done" /\ UNCHANGED <<pending, unsolicited>>

\* an exhausted stream reported as a broken connection
EndOfStream_panics == pc' = "panic" /\ UNCHANGED <<pending, unsolicited>>

\* stream.next() gave None: the loop ends exactly as after a Done record
EndOfStream == Finish

\* the error is noted but the loop goes on
Fail_continue(resp) == err' = Some(Unexpected(resp)) /\ pc' = "next" /\ UNCHANGED <<pending, unsolicited>>

\* a failure that takes the events still in the channel back
Fail_rollback(resp) ==
    /\ err' = Some(Unexpected(resp)) /\ pc' = "done"
    /\ unsolicited' = <<>> /\ UNCHANGED pending

\* return Err(resp.parsed().into()) of an aggregate extractor
Fail(resp) == err' = Some(Unexpected(resp)) /\ pc' = "done" /\ UNCHANGED <<pending, unsolicited>>

\* a non-Ok status that is skipped without a word
Panic_ignored == pc' = "next" /\ UNCHANGED <<pending, unsolicited>>

\* unreachable!() of parse_mailbox: the call panics
Panic == pc' = "panic" /\ UNCHANGED <<pending, unsolicited>>

\* the closure without its Fetch arm
item_unexpected_always_error(resp) == Some(ErrItem(Unexpected(resp)))

\* the per-item closure after handle_unilateral handed the record back
item_unexpected(resp) ==
    IF resp.t = "Fetch" THEN None ELSE Some(ErrItem(Unexpected(resp)))

\* ------------------------------------------------------------------ actions
parse_capabilities ==
    /\ cmd = "capabilities" /\ pc = "next"
    /\ IF pos = Len(stream)
       THEN EndOfStream /\ UNCHANGED <<pos, caps, err>>
       ELSE LET resp == stream[pos + 1] IN
            /\ pos' = pos + 1
            /\ IF ~take_while(resp) THEN Finish /\ UNCHANGED <<caps, err>>
               ELSE IF resp.t = "Capabilities"
               THEN caps' = caps_insert(caps, resp.cs) /\ Continue_ /\ UNCHANGED err
               ELSE LET u == handle_unilateral(resp) IN
                    IF u # None THEN Deliver(u[1]) /\ UNCHANGED <<caps, err>>
                    ELSE Fail(resp) /\ UNCHANGED caps
    /\ UNCHANGED <<cmd, stream, received, items, ids, mailbox>>

parse_ids ==
    /\ cmd = "ids" /\ pc = "next"
    /\ IF pos = Len(stream)
       THEN EndOfStream /\ UNCHANGED <<pos, ids, err>>
       ELSE LET resp == stream[pos + 1] IN
            /\ pos' = pos + 1
            /\ IF ~take_while(resp) THEN Finish /\ UNCHANGED <<ids, err>>
               ELSE IF resp.t = "IDs"
               THEN ids' = ids_insert(ids, resp.idl) /\ Continue_ /\ UNCHANGED err
               ELSE LET u == handle_unilateral(resp) IN
                    IF u # None THEN Deliver(u[1]) /\ UNCHANGED <<ids, err>>
                    ELSE Fail(resp) /\ UNCHANGED ids
    /\ UNCHANGED <<cmd, stream, received, items, caps, mailbox>>

parse_names ==
    /\ cmd = "names" /\ pc = "next"
    /\ IF pos = Len(stream)
       THEN EndOfStream /\ UNCHANGED <<pos, items>>
       ELSE LET resp == stream[pos + 1] IN
            /\ pos' = pos + 1
            /\ IF ~take_while(resp) THEN Finish /\ UNCHANGED items
               ELSE IF resp.t = "List"
               THEN items' = Append(items, OkItem(name_of(resp))) /\ Continue_
               ELSE LET u == handle_unilateral(resp) IN
                    IF u # None THEN Deliver(u[1]) /\ UNCHANGED items
                    ELSE items' = items \o item_unexpected(resp) /\ Continue_
    /\ UNCHANGED <<cmd, stream, received, caps, ids, mailbox, err>>

parse_fetches ==
    /\ cmd = "fetches" /\ pc = "next"
    /\ IF pos = Len(stream)
       THEN EndOfStream /\ UNCHANGED <<pos, items>>
       ELSE LET resp == stream[pos + 1] IN
            /\ pos' = pos + 1
            /\ IF ~take_while(resp) THEN Finish /\ UNCHANGED items
               ELSE IF resp.t = "Fetch"
               THEN items' = Append(items, OkItem(fetch_of(resp))) /\ Continue_
               ELSE LET u == handle_unilateral(resp) IN
                    IF u # None THEN Deliver(u[1]) /\ UNCHANGED items
                    ELSE items' = items \o item_unexpected(resp) /\ Continue_
    /\ UNCHANGED <<cmd, stream, received, caps, ids, mailbox, err>>

parse_expunge ==
    /\ cmd = "expunge" /\ pc = "next"
    /\ IF pos = Len(stream)
       THEN EndOfStream /\ UNCHANGED <<pos, items>>
       ELSE LET resp == stream[pos + 1] IN
            /\ pos' = pos + 1
            /\ IF ~take_while(resp) THEN Finish /\ UNCHANGED items
               ELSE IF resp.t = "Expunge"
               THEN items' = Append(items, OkItem(resp.n)) /\ Continue_
               ELSE LET u == handle_unilateral(resp) IN
                    IF u # None THEN Deliver(u[1]) /\ UNCHANGED items
                    ELSE items' = items \o item_unexpected(resp) /\ Continue_
    /\ UNCHANGED <<cmd, stream, received, caps, ids, mailbox, err>>

\* collect::<Result<()>>() stops at the first Err item and `?` returns it
parse_noop ==
    /\ cmd = "noop" /\ pc = "next"
    /\ IF pos = Len(stream)
       THEN EndOfStream /\ UNCHANGED <<pos, err>>
       ELSE LET resp == stream[pos + 1] IN
            /\ pos' = pos + 1
            /\ IF ~take_while(resp) THEN Finish /\ UNCHANGED err
               ELSE LET u == handle_unilateral(resp) IN
                    IF u # None THEN Deliver(u[1]) /\ UNCHANGED err
                    ELSE Fail(resp)
    /\ UNCHANGED <<cmd, stream, received, items, caps, ids, mailbox>>

parse_mailbox ==
    /\ cmd = "mailbox" /\ pc = "next"
    /\ IF pos = Len(stream)
       THEN EndOfStream /\ UNCHANGED <<pos, mailbox, err>>
       ELSE LET resp == stream[pos + 1] IN
            /\ pos' = pos + 1
            /\ IF ~take_while(resp) THEN Finish /\ UNCHANGED <<mailbox, err>>
               ELSE CASE resp.t = "Data" ->
                           IF resp.status = "Ok"
                           THEN /\ mailbox' = mailbox_code(mailbox, resp.code)
                                /\ Continue_ /\ UNCHANGED err
                           ELSE Panic /\ UNCHANGED <<mailbox, err>>
                      [] resp.t \in {"Status", "Exists", "Recent", "Flags", "List"} ->
                           /\ mailbox' = mailbox_datum(mailbox, resp)
                           /\ LET u == mailbox_event(resp) IN
                              IF u # None THEN Deliver(u[1]) ELSE Continue_
                           /\ UNCHANGED err
                      [] resp.t = "Expunge" ->
                           Deliver(mailbox_event(resp)[1]) /\ UNCHANGED <<mailbox, err>>
                      [] OTHER -> Fail(resp) /\ UNCHANGED mailbox
    /\ UNCHANGED <<cmd, stream, received, items, caps, ids>>

\* a suspended send that is never woken up again
send_lost_wakeup == FALSE /\ UNCHANGED vars

\* a suspended unsolicited.send(..).await completes once the channel has room
send ==
    /\ pc = "send"
    /\ Len(unsolicited) < ChanCap
    /\ unsolicited' = Append(unsolicited, pending[1])
    /\ pending' = None
    /\ pc' = "next"
    /\ UNCHANGED <<cmd, stream, pos, received, items, caps, ids, mailbox, err>>

\* the session takes the oldest event from the channel (Receiver::recv)
recv ==
    /\ unsolicited # <<>>
    /\ received' = Append(received, Head(unsolicited))
    /\ unsolicited' = Tail(unsolicited)
    /\ UNCHANGED <<cmd, stream, pos, pc, pending, items, caps, ids, mailbox, err>>

Next ==
    \/ parse_capabilities
    \/ parse_ids
    \/ parse_names
    \/ parse_fetches
    \/ parse_expunge
    \/ parse_noop
    \/ parse_mailbox
    \/ send
    \/ recv

Spec == Init /\ [][Next]_vars

\* the aggregate extractors, driven by a caller that keeps awaiting the call
\* and a session that keeps receiving from the channel
AggCmds == {"capabilities", "ids", "noop", "mailbox"}

InitAgg == Init /\ cmd \in AggCmds

NextAgg ==
    \/ parse_capabilities
    \/ parse_ids
    \/ parse_noop
    \/ parse_mailbox
    \/ send
    \/ recv

\* the executor polls the awaited call whenever it can make a step
Extract == parse_capabilities \/ parse_ids \/ parse_noop \/ parse_mailbox \/ send

SpecAgg == InitAgg /\ [][NextAgg]_vars /\ WF_vars(Extract) /\ WF_vars(recv)

\* the caller drops the extractor's future (or stream) at one of its awaits:
\* while it awaits the next record, or while it is suspended in send, in
\* which case the record it took and the event it was sending go with it
abandon ==
    /\ pc \in {"next", "send"}
    /\ pc' = "abandoned"
    /\ pending' = None
    /\ UNCHANGED <<cmd, stream, pos, unsolicited, received, items, caps, ids, mailbox, err>>

NextCancel == Next \/ abandon

\* the extractors with a caller that may give up
SpecCancel == Init /\ [][NextCancel]_vars

\* ============================================================== properties
\* the records taken from the stream so far
Prefix == SubSeq(stream, 1, pos)
\* the events the channel has accepted, oldest first
Delivered == received \o unsolicited

IsUnilateral(r) == r.t \in {"Status", "Recent", "Exists", "Expunge"}
IsDone(r) == r.t = "Done"
OwnShape(c) ==
    CASE c = "capabilities" -> "Capabilities"
      [] c = "ids" -> "IDs"
      [] c = "names" -> "List"
      [] c = "fetches" -> "Fetch"
      [] c = "expunge" -> "Expunge"
      [] OTHER -> "-"
\* routed to the sink by extractor c
Routed(c, r) == IsUnilateral(r) /\ r.t # OwnShape(c)
\* neither the result shape of c, nor unilateral, nor the terminal marker
IsUnexpected(c, r) == ~IsDone(r) /\ ~IsUnilateral(r) /\ r.t # OwnShape(c)

RecShape(r) ==
    [e |-> r.t,
     n |-> IF r.t = "Status" THEN 0 ELSE r.n,
     mailbox |-> IF r.t = "Status" THEN r.mailbox ELSE ""]
EvShape(ev) ==
    [e |-> ev.e,
     n |-> IF ev.e = "Status" THEN 0 ELSE ev.n,
     mailbox |-> IF ev.e = "Status" THEN ev.mailbox ELSE ""]

UniCmds == {"capabilities", "ids", "names", "fetches", "expunge"}
ItemCmds == {"names", "fetches", "expunge"}

\* C1: for the capability, id-set, listing, fetch and expunge extractors the
\* events handed to the sink (accepted by the channel, plus the one of a
\* suspended send) are, in stream order, exactly one per record read so far
\* that has a unilateral shape and is not the extractor's own result shape;
\* an event is only outstanding while the extractor is suspended in send.
C1_SinkGetsUnilateralInOrder ==
    cmd \in UniCmds =>
        /\ MapSeq(EvShape, Delivered \o pending)
             = MapSeq(RecShape, SelectSeq(Prefix, LAMBDA r : Routed(cmd, r)))
        /\ (pc # "send" => pending = None)

C1_Witness ==
    /\ cmd \in UniCmds /\ pc = "done"
    /\ Len(Delivered) >= 2
    /\ Delivered[1].e # Delivered[2].e
    /\ \E i \in 1..pos : stream[i].t = OwnShape(cmd)

\* decoded StatusAttribute of a status item of the record
StatusAttributeFrom(it) == [a |-> it.a, n |-> it.n]

\* C2: every StatusPush event routed by handle_unilateral carries the mailbox
\* name of its Status record and the record's decoded status items, in order.
C2_StatusPushCarriesItems ==
    cmd \in UniCmds \cup {"noop"} =>
        LET evs == SelectSeq(Delivered \o pending, LAMBDA ev : ev.e = "Status")
            recs == SelectSeq(Prefix, LAMBDA r : r.t = "Status")
        IN /\ Len(evs) = Len(recs)
           /\ \A k \in 1..Len(evs) :
                /\ evs[k].mailbox = recs[k].mailbox
                /\ evs[k].attributes = MapSeq(StatusAttributeFrom, recs[k].sitems)

\* the value of the last attribute a of an attribute list, if any
RECURSIVE AttrNum(_, _)
AttrNum(attrs, a) ==
    IF attrs = <<>> THEN None
    ELSE LET rest == AttrNum(Tail(attrs), a)
         IN IF rest # None THEN rest
            ELSE IF Head(attrs).a = a THEN Some(Head(attrs).n) ELSE None
\* the flags of the Flags attributes of an attribute list
RECURSIVE AttrFlagList(_)
AttrFlagList(attrs) ==
    IF attrs = <<>> THEN <<>>
    ELSE (IF Head(attrs).a = "Flags" THEN MapSeq(FlagFrom, Head(attrs).flags) ELSE <<>>)
         \o AttrFlagList(Tail(attrs))

OkItems == SelectSeq(items, LAMBDA it : it.ok)
OwnRecs == SelectSeq(Prefix, LAMBDA r : r.t = OwnShape(cmd))

\* C3: the FetchRecord produced by parse_fetches for a Fetch record has uid,
\* flags and size equal to the record's Uid, Flags and Rfc822Size attributes
\* (absent / empty when the record has none).
C3_FetchFieldsFromAttributes ==
    cmd = "fetches" =>
        /\ Len(OkItems) = Len(OwnRecs)
        /\ \A k \in 1..Len(OkItems) :
             /\ OkItems[k].val.uid = AttrNum(OwnRecs[k].attrs, "Uid")
             /\ OkItems[k].val.flags = AttrFlagList(OwnRecs[k].attrs)
             /\ OkItems[k].val.size = AttrNum(OwnRecs[k].attrs, "Rfc822Size")

\* the data the claim says an item carries
RecData(c, r) ==
    CASE c = "names" ->
           [attributes |-> MapSeq(NameAttributeFrom, r.flags),
            delimiter |-> r.delimiter, name |-> r.name]
      [] c = "fetches" -> [message |-> r.num]
      [] c = "expunge" -> [id |-> r.n]
ItemData(c, v) ==
    CASE c = "names" -> v
      [] c = "fetches" -> [message |-> v.message]
      [] c = "expunge" -> [id |-> v]

\* C4: a per-item extractor has yielded exactly one Ok item per record of its
\* own shape read so far, in stream order, carrying that record's data
\* (name/delimiter/attributes, message number, expunge id); the records
\* routed to the sink yield no item at all.
C4_OneItemPerOwnRecord ==
    cmd \in ItemCmds =>
        /\ Len(OkItems) = Len(OwnRecs)
        /\ \A k \in 1..Len(OkItems) :
             ItemData(cmd, OkItems[k].val) = RecData(cmd, OwnRecs[k])
        /\ Len(items) - Len(OkItems)
             <= Len(SelectSeq(Prefix, LAMBDA r : IsUnexpected(cmd, r)))

C4_Witness ==
    /\ cmd = "names" /\ pc = "done"
    /\ Len(items) = 2 /\ items[1].ok /\ items[2].ok
    /\ items[1].val.delimiter # items[2].val.delimiter
    /\ Len(Delivered) = 1

\* C5: on a stream that is one completion marker every extractor ends with
\* its empty/default result, no error, and nothing sent to the sink.
C5_LoneDoneGivesDefault ==
    (Len(stream) = 1 /\ IsDone(stream[1]) /\ pos = 1) =>
        /\ pc = "done"
        /\ err = None
        /\ caps = {} /\ ids = {} /\ items = <<>>
        /\ mailbox.exists = 0 /\ mailbox.recent = 0
        /\ mailbox.flags = <<>> /\ mailbox.permanent_flags = <<>>
        /\ mailbox.uid_validity = None /\ mailbox.uid_next = None
        /\ mailbox.unseen = None
        /\ Delivered = <<>> /\ pending = None

C5_Witness ==
    /\ Len(stream) = 1 /\ stream[1] = DoneNo /\ pos = 1 /\ pc = "done"
    /\ cmd = "mailbox"

\* C6: an extractor stops at the first Done record whatever its status and
\* tag: a Done is only ever the last record taken from the stream, the
\* extractor is finished once it is taken, the marker is neither an error nor
\* an item, and the sink holds no more events than unilateral records read.
C6_StopsAtFirstDone ==
    /\ \A i \in 1..pos :
         IsDone(stream[i]) =>
           /\ i = pos
           /\ pc = "done"
           /\ pending = None
           /\ err = None
           /\ \A k \in 1..Len(items) :
                items[k].ok \/ items[k].error.resp # stream[i]
    /\ Len(Delivered \o pending) <= Len(SelectSeq(Prefix, IsUnilateral))

C6_Witness ==
    /\ pc = "done" /\ pos >= 2 /\ pos < Len(stream)
    /\ stream[pos] = DoneNo
    /\ IsUnilateral(stream[pos + 1])
    /\ Delivered # <<>>

\* the tokens of the Capabilities records read so far
Announced ==
    UNION {SeqToSet(stream[i].cs) : i \in {j \in 1..pos : stream[j].t = "Capabilities"}}
AllTokens ==
    {"IMAP4REV1", "IMAP4rev1", "imap4rev1", "STARTTLS", "starttls", "StartTLS",
     "AUTH=PLAIN", "auth=plain"}

\* C7: the capability set is the set of normalized tokens of the Capabilities
\* records read; a token announced twice or in another letter case adds no
\* second element, and lookup succeeds in whatever case the token is spelled.
C7_CapsIdempotentCaseInsensitive ==
    cmd = "capabilities" =>
        /\ caps = {CapabilityFrom(c) : c \in Announced}
        /\ \A a, b \in caps : CapabilityFrom(a) = CapabilityFrom(b) => a = b
        /\ \A c \in Announced : \A v \in AllTokens :
             CapabilityFrom(v) = CapabilityFrom(c) => has_str(caps, v)

C7_Witness ==
    /\ cmd = "capabilities" /\ pc = "done" /\ err = None
    /\ {"IMAP4REV1", "IMAP4rev1"} \subseteq Announced
    /\ Cardinality(caps) = 3

\* C8: in parse_capabilities and parse_ids an unexpected record is the last
\* record taken from the stream: the call has returned the UnexpectedResponse
\* error carrying that record, and an error is only returned for such a record.
C8_AggregateFailsAtFirstUnexpected ==
    cmd \in {"capabilities", "ids"} =>
        /\ \A i \in 1..pos :
             IsUnexpected(cmd, stream[i]) =>
               /\ i = pos
               /\ pc = "done"
               /\ err = Some([error |-> "UnexpectedResponse", resp |-> stream[i]])
        /\ err # None => (pos >= 1 /\ IsUnexpected(cmd, stream[pos]))

C8_Witness ==
    /\ cmd = "ids" /\ err # None /\ pc = "done"
    /\ pos = 2 /\ Len(stream) = 3
    /\ stream[1].t = "IDs" /\ stream[3].t = "IDs"

\* C9: the id set of parse_ids is the union of the ids of the IDs records
\* read, duplicates collapsed, and IDs records send nothing to the sink.
C9_IdsAreUnion ==
    cmd = "ids" =>
        /\ ids = UNION {SeqToSet(stream[i].idl) : i \in {j \in 1..pos : stream[j].t = "IDs"}}
        /\ Len(Delivered \o pending) = Len(SelectSeq(Prefix, IsUnilateral))

C9_Witness ==
    /\ cmd = "ids" /\ pc = "done" /\ err = None
    /\ stream = <<IDs(<<1, 2>>), IDs(<<>>), IDs(<<2, 3>>)>>
    /\ ids = {1, 2, 3}
    /\ Delivered = <<>>

ItemTag(it) == IF it.ok THEN [ok |-> TRUE] ELSE it
ExpectedTag(c, r) ==
    IF r.t = OwnShape(c) THEN [ok |-> TRUE]
    ELSE [ok |-> FALSE, error |-> [error |-> "UnexpectedResponse", resp |-> r]]

\* C10: in the per-item extractors every unexpected record read yields an
\* error item at its position among the items and does not end the sequence:
\* the items are, in order, one per record read that is not routed to the
\* sink, and the sequence only ends at the terminal marker or the stream end.
C10_UnexpectedIsErrorItem ==
    cmd \in ItemCmds =>
        /\ MapSeq(ItemTag, items)
             = MapSeq(LAMBDA r : ExpectedTag(cmd, r),
                      SelectSeq(Prefix, LAMBDA r : ~IsDone(r) /\ ~Routed(cmd, r)))
        /\ pc = "done" => (pos = Len(stream) \/ IsDone(stream[pos]))

ErrItems == SelectSeq(items, LAMBDA it : ~it.ok)

\* C11: in parse_expunge every record read that is neither an Expunge, nor a
\* unilateral shape, nor the terminal marker has yielded an UnexpectedResponse
\* error item carrying it, in stream order; none is dropped.
C11_ExpungeUnexpectedIsError ==
    cmd = "expunge" =>
        MapSeq(LAMBDA it : it.error.resp, ErrItems)
          = SelectSeq(Prefix, LAMBDA r : IsUnexpected("expunge", r))

MailboxShapes == {"Data", "Exists", "Recent", "Flags", "Status", "Expunge"}

\* C12: in parse_mailbox a record read whose shape is not a DataStatus, an
\* Exists/Recent/Flags/Status mailbox datum, an Expunge or the terminal marker
\* is the last one read and has made the call return an error.
C12_MailboxOtherShapeFails ==
    cmd = "mailbox" =>
        \A i \in 1..pos :
            (~IsDone(stream[i]) /\ stream[i].t \notin MailboxShapes) =>
                /\ i = pos
                /\ pc = "done"
                /\ err # None

\* C13: in parse_mailbox a Data record whose status is not Ok is fatal: taking
\* it panics the call without touching the Mailbox, the result or the sink,
\* and a panicked call takes no further record and never returns.
C13_NonOkDataIsFatal ==
    [][cmd = "mailbox" =>
         /\ (pos' = pos + 1 /\ stream[pos'].t = "Data" /\ stream[pos'].status # "Ok")
              => /\ pc' = "panic"
                 /\ mailbox' = mailbox
                 /\ err' = err
                 /\ received' \o unsolicited' = received \o unsolicited
         /\ pc = "panic"
              => /\ pc' = "panic"
                 /\ pos' = pos
                 /\ mailbox' = mailbox
                 /\ err' = err]_vars

C13_Witness ==
    /\ cmd = "mailbox" /\ pc = "panic"
    /\ pos = 2 /\ Len(stream) = 3
    /\ mailbox.uid_validity # None
    /\ stream[3].t = "Data"

IsPrefix(a, b) == Len(a) <= Len(b) /\ SubSeq(b, 1, Len(a)) = a
\* this step takes a record of shape t from the stream
Took(t) == pos' = pos + 1 /\ stream[pos'].t = t
\* this step takes a Data record with response code c from the stream
TookCode(c) == Took("Data") /\ stream[pos'].code.c = c

\* C14: in parse_mailbox the Mailbox never shrinks: uid_validity, uid_next and
\* unseen are never reset to absent, flags and permanent_flags only grow at
\* the end, and a field changes only in the step that takes a record of its
\* own kind.
C14_MailboxNeverShrinks ==
    [][cmd = "mailbox" =>
         /\ mailbox.uid_validity # None => mailbox'.uid_validity # None
         /\ mailbox.uid_next # None => mailbox'.uid_next # None
         /\ mailbox.unseen # None => mailbox'.unseen # None
         /\ IsPrefix(mailbox.flags, mailbox'.flags)
         /\ IsPrefix(mailbox.permanent_flags, mailbox'.permanent_flags)
         /\ mailbox'.exists # mailbox.exists => Took("Exists")
         /\ mailbox'.recent # mailbox.recent => Took("Recent")
         /\ mailbox'.flags # mailbox.flags => Took("Flags")
         /\ mailbox'.uid_validity # mailbox.uid_validity => TookCode("UidValidity")
         /\ mailbox'.uid_next # mailbox.uid_next => TookCode("UidNext")
         /\ mailbox'.unseen # mailbox.unseen => TookCode("Unseen")
         /\ mailbox'.permanent_flags # mailbox.permanent_flags
              => TookCode("PermanentFlags")]_vars

C14_Witness ==
    /\ cmd = "mailbox" /\ pos = 3
    /\ stream[1] = Data("Ok", CodeNum("Unseen", 2))
    /\ stream[2] = Data("Ok", CodeNum("UidNext", 8))
    /\ stream[3] = Data("Ok", CodeNum("UidNext", 9))
    /\ mailbox.uid_next = Some(9) /\ mailbox.unseen = Some(2)

\* C15: in parse_mailbox the events handed to the sink are, in stream order,
\* exactly one per Status datum and per Expunge record read so far; Exists,
\* Recent and Flags records send nothing and are applied to the Mailbox.
C15_MailboxSinkStatusAndExpunge ==
    cmd = "mailbox" =>
        /\ MapSeq(EvShape, Delivered \o pending)
             = MapSeq(RecShape,
                      SelectSeq(Prefix, LAMBDA r : r.t \in {"Status", "Expunge"}))
        /\ (pc # "send" => pending = None)
        /\ \A i \in 1..pos :
             /\ stream[i].t = "Exists" =>
                  mailbox.exists \in {stream[j].n : j \in {k \in i..pos : stream[k].t = "Exists"}}
             /\ stream[i].t = "Recent" => mailbox.recent = stream[i].n
             /\ stream[i].t = "Flags" => mailbox.flags # <<>>

C15_Witness ==
    /\ cmd = "mailbox" /\ pc = "done" /\ err = None
    /\ stream = <<MbExists(4), Expunge(3), StatusRec>>
    /\ Len(Delivered) = 2 /\ Delivered[1].e = "Expunge" /\ Delivered[2].e = "Status"
    /\ mailbox.exists = 4

\* the event extractor c sends for record r, if any
EventFor(c, r) ==
    IF c = "mailbox" THEN r.t \in {"Status", "Expunge"} ELSE Routed(c, r)

C17_AbandonLeavesNoHalfConsumedRecord ==
    pc = "abandoned" =>
        MapSeq(EvShape, Delivered)
          = MapSeq(RecShape, SelectSeq(Prefix, LAMBDA r : EventFor(cmd, r)))

\* C18: in parse_names a Fetch record read is suppressed: it yields no item,
\* no error and no sink event, while every other record read that is neither
\* a List datum, nor unilateral, nor the terminal marker yields an error item
\* carrying it, at its position among the items.
C18_NamesSwallowsFetch ==
    cmd = "names" =>
        /\ MapSeq(ItemTag, items)
             = MapSeq(LAMBDA r : ExpectedTag("names", r),
                      SelectSeq(Prefix, LAMBDA r : /\ ~IsDone(r)
                                                   /\ ~Routed("names", r)
                                                   /\ r.t # "Fetch"))
        /\ Len(Delivered \o pending)
             = Len(SelectSeq(Prefix, LAMBDA r : Routed("names", r)))
        /\ \A k \in 1..Len(items) : items[k].ok \/ items[k].error.resp.t # "Fetch"

C18_Witness ==
    /\ cmd = "names" /\ pc = "done"
    /\ stream = <<FetchUid, Continue, ListInbox>>
    /\ Len(items) = 2 /\ ~items[1].ok /\ items[2].ok
    /\ Delivered = <<>>

Max(S) == CHOOSE x \in S : \A y \in S : y <= x
\* the count of the last record of shape t read, 0 when there is none
LastCount(t) ==
    LET S == {i \in 1..pos : stream[i].t = t}
    IN IF S = {} THEN 0 ELSE stream[Max(S)].n
\* the records read that are Data with status Ok and response code c
CodeRecs(c) ==
    SelectSeq(Prefix, LAMBDA r : r.t = "Data" /\ r.status = "Ok" /\ r.code.c = c)
\* the value of the last response code c read, absent when there is none
LastCode(c) ==
    IF CodeRecs(c) = <<>> THEN None
    ELSE Some(CodeRecs(c)[Len(CodeRecs(c))].code.n)
RECURSIVE ConcatFlags(_)
ConcatFlags(fls) ==
    IF fls = <<>> THEN <<>>
    ELSE MapSeq(FlagFrom, Head(fls)) \o ConcatFlags(Tail(fls))

\* C19: in parse_mailbox exists and recent are the counts of the last Exists
\* and Recent record read (0 when none), uid_validity, uid_next and unseen the
\* values of the last response code of their kind (absent when none); Data
\* records with another or no response code change nothing, so the flag lists
\* are those of the Flags records and PermanentFlags codes read.
C19_MailboxFieldsAreLastSeen ==
    cmd = "mailbox" =>
        /\ mailbox.exists = LastCount("Exists")
        /\ mailbox.recent = LastCount("Recent")
        /\ mailbox.uid_validity = LastCode("UidValidity")
        /\ mailbox.uid_next = LastCode("UidNext")
        /\ mailbox.unseen = LastCode("Unseen")
        /\ mailbox.flags
             = ConcatFlags(MapSeq(LAMBDA r : r.flags,
                                  SelectSeq(Prefix, LAMBDA r : r.t = "Flags")))
        /\ mailbox.permanent_flags
             = ConcatFlags(MapSeq(LAMBDA r : r.code.flags, CodeRecs("PermanentFlags")))

C19_Witness ==
    /\ cmd = "mailbox" /\ pc = "done" /\ err = None
    /\ stream = <<MbExists(4), Data("Ok", CodeNone), MbExists(6)>>
    /\ mailbox.exists = 6 /\ mailbox.uid_next = None /\ mailbox.recent = 0

\* C20: in parse_mailbox the step that takes a Status datum or an Expunge
\* record, and the step that completes its suspended send, leave every field
\* of the Mailbox unchanged.
C20_PushLeavesMailboxUnchanged ==
    [][cmd = "mailbox" =>
         /\ (Took("Status") \/ Took("Expunge")) => mailbox' = mailbox
         /\ pc = "send" => mailbox' = mailbox]_vars

C20_Witness ==
    /\ cmd = "mailbox" /\ pos = 2
    /\ stream[1] = MbExists(6) /\ stream[2] = StatusRec
    /\ mailbox.exists = 6
    /\ Len(Delivered) = 1 /\ Delivered[1].e = "Status"

C22_ExhaustedEndsLikeDone ==
    [][(/\ pc = "next"
        /\ pc' # "next"
        /\ \/ pos = Len(stream)
           \/ IsDone(stream[pos + 1]))
       => /\ pc' = "done"
          /\ err = None /\ err' = None
          /\ pending' = None
          /\ Delivered' = Delivered
          /\ <<items, caps, ids, mailbox>>' = <<items, caps, ids, mailbox>>]_vars

C22_Witness ==
    /\ pc = "done" /\ err = None
    /\ pos = Len(stream)
    /\ \A i \in 1..Len(stream) : ~IsDone(stream[i])
    /\ Len(stream) = MaxLen
    /\ Delivered # <<>>
    /\ \/ items # <<>>
       \/ caps # {}
       \/ ids # {}
       \/ mailbox # MailboxDefault

\* C23: once parse_capabilities, parse_ids or parse_mailbox has failed on an
\* unexpected record, the sink holds, in stream order, exactly the events of
\* the records read before the failing one: they were delivered before the
\* failure and stay delivered, the failing record has no event, nothing is
\* outstanding and no later record adds an event.
C23_FailureKeepsEarlierEvents ==
    (cmd \in {"capabilities", "ids", "mailbox"} /\ err # None) =>
        /\ pc = "done" /\ pending = None
        /\ pos >= 1
        /\ err = Some(Unexpected(stream[pos]))
        /\ ~EventFor(cmd, stream[pos])
        /\ MapSeq(EvShape, Delivered)
             = MapSeq(RecShape,
                      SelectSeq(SubSeq(stream, 1, pos - 1),
                                LAMBDA r : EventFor(cmd, r)))

C23_Witness ==
    /\ cmd \in {"capabilities", "mailbox"} /\ err # None
    /\ pos = 2 /\ Len(stream) = 3
    /\ EventFor(cmd, stream[1]) /\ EventFor(cmd, stream[3])
    /\ Len(received) = 1 /\ unsolicited = <<>>

====
